---- MODULE Spec2Model ----
(***************************************************************************)
(* The collapsible tree view of helix-term (ui/tree/mod.rs) over the arena  *)
(* built from a language server's nested document symbols (ui/lsp_tree.rs). *)
(* Beside it: the column-generic TreeModel of helix-tui (widgets/tree.rs),   *)
(* stepped side by side with the view (SpecNav) and rendered (SpecWidget),  *)
(* and calls of TreeModel::depth (SpecDepth).                               *)
(*                                                                          *)
(* Conventions.  Option<T> is a sequence of length at most one: None is     *)
(* <<>>, Some(x) is <<x>>.  Index values are 0-based like the usize they    *)
(* wrap; a Vec is a 1-based sequence, so vec[i] of the source is v[i + 1].  *)
(***************************************************************************)
EXTENDS Integers, Sequences, FiniteSets, TLC

\* ---------------------------------------------------------------- bounds
\* Largest number of symbols in one nested response.
MaxNodes == 4
\* Deepest nesting (number of levels) of one nested response.
MaxDepth == 3
\* Number of nested next_uncle / prev_uncle frames the stack can hold.
StackLimit == 6
\* The largest height of the area a view is rendered into.
MaxHeight == 3
\* Number of turns of the loop of TreeModel::depth that are followed.
MaxIterations == 6
\* Largest COLUMNS of a TreeModel<COLUMNS, RowData> that is rendered.
MaxColumns == 2

\* ---------------------------------------------------------------- Option
None == <<>>
Some(x) == <<x>>
IsSome(o) == Len(o) = 1
Unwrap(o) == o[1]
\* Option::or_else
OrElse(o, alt) == IF IsSome(o) THEN o ELSE alt

\* ------------------------------------------------------- the input payload
\* lsp::DocumentSymbol: a name and an optional list of children of the same
\* shape.  A symbol is named after its place in the response (the path of
\* sibling positions leading to it), which makes every symbol distinct.
\* Option<Vec<DocumentSymbol>> read as a list: no list is no child.
ChildSymbols(node) == IF IsSome(node.children) THEN Unwrap(node.children) ELSE <<>>

RECURSIVE SymbolCount(_)
SymbolCount(symbols) ==
    IF symbols = <<>> THEN 0
    ELSE 1 + SymbolCount(ChildSymbols(Head(symbols))) + SymbolCount(Tail(symbols))

\* All Vec<DocumentSymbol> that continue a sibling list at position i below
\* the symbol named p, with at most n symbols and at most d levels.  A symbol
\* without children carries children = None when leafNone, else Some(vec![]).
RECURSIVE SymbolLists(_, _, _, _, _)
SymbolLists(d, n, p, i, leafNone) ==
    IF d = 0 \/ n = 0 THEN {<<>>}
    ELSE {<<>>} \cup UNION {
            { <<[name |-> Append(p, i),
                 children |-> IF c = <<>> /\ leafNone THEN None ELSE Some(c)]>>
              \o rest :
                rest \in SymbolLists(d, n - 1 - SymbolCount(c), p, i + 1, leafNone) }
            : c \in SymbolLists(d - 1, n - 1, Append(p, i), 0, leafNone) }

\* The Nested(symbols) payloads a server may answer with.
NestedSymbols ==
    SymbolLists(MaxDepth, MaxNodes, <<>>, 0, TRUE)
        \cup SymbolLists(MaxDepth, MaxNodes, <<>>, 0, FALSE)

\* Option<lsp::DocumentSymbolResponse>
Responses ==
    {None, Some([kind |-> "Flat", symbols |-> <<>>])}
        \cup { Some([kind |-> "Nested", symbols |-> s]) : s \in NestedSymbols }

\* ------------------------------------------------------------- the adapter
\* fn tr2 with the map over the children unrolled: tr2_children visits the
\* children from position child_ix on and collects the indices returned.
RECURSIVE tr2(_, _, _, _), tr2_children(_, _, _, _, _)

\* tr2 recording the node's own index where its position among its siblings
\* belongs (the two usize values confused).
tr2_index_as_child_ix(lsp_items, node, parent, child_ix) ==
    LET index == Len(lsp_items)
        children == ChildSymbols(node)
        pushed == Append(lsp_items,
                         [item |-> [name |-> node.name], children |-> <<>>, ix |-> index,
                          child_ix |-> index, parent |-> parent])
        done == tr2_children(pushed, children, Some(index), 0, <<>>)
    IN  [lsp_items |-> [done.lsp_items EXCEPT ![index + 1].children = done.collected],
         index |-> index]

tr2(lsp_items, node, parent, child_ix) ==
    LET index == Len(lsp_items)
        children == ChildSymbols(node)
        \* Item.item keeps the symbol; its name is all that is read of it later
        \* (TreeItem::render), its own children list is left empty by mem::swap
        pushed == Append(lsp_items,
                         [item |-> [name |-> node.name], children |-> <<>>, ix |-> index,
                          child_ix |-> child_ix, parent |-> parent])
        done == tr2_children(pushed, children, Some(index), 0, <<>>)
    IN  [lsp_items |-> [done.lsp_items EXCEPT ![index + 1].children = done.collected],
         index |-> index]

tr2_children(lsp_items, nodes, parent, child_ix, collected) ==
    IF child_ix >= Len(nodes) THEN [lsp_items |-> lsp_items, collected |-> collected]
    ELSE LET r == tr2(lsp_items, nodes[child_ix + 1], parent, child_ix)
         IN  tr2_children(r.lsp_items, nodes, parent, child_ix + 1,
                          Append(collected, r.index))

\* LspTreeModel::new
LspTreeModel_new(symbols) ==
    LET done == tr2_children(<<>>, symbols, None, 0, <<>>)
    IN  [roots |-> done.collected, lsp_items |-> done.lsp_items]

\* ------------------------------------------------- TreeItem for Item
get_item(m, ix) == m.lsp_items[ix + 1]
child(item, row) == item.children[row + 1]
child_count(item) == Len(item.children)

\* --------------------------------------------------- TreeModel navigation
get_first(m) == IF Len(m.roots) > 0 THEN Some(m.roots[1]) ELSE None

next_sibling(m, ix) ==
    LET item == get_item(m, ix)
        child_index == item.child_ix
    IN  IF IsSome(item.parent)
        THEN LET parent == get_item(m, Unwrap(item.parent))
             IN  IF child_count(parent) > child_index + 1
                 THEN Some(child(parent, child_index + 1))
                 ELSE None
        ELSE IF Len(m.roots) > child_index + 1
             THEN Some(m.roots[child_index + 2])
             ELSE None

\* prev_sibling answering roots[child_index] for a root: the root itself.
prev_sibling_same_root(m, ix) ==
    LET item == get_item(m, ix)
        child_index == item.child_ix
    IN  IF IsSome(item.parent)
        THEN LET parent == get_item(m, Unwrap(item.parent))
             IN  IF child_index > 0
                 THEN Some(child(parent, child_index - 1))
                 ELSE None
        ELSE IF child_index > 0
             THEN Some(m.roots[child_index + 1])
             ELSE None

prev_sibling(m, ix) ==
    LET item == get_item(m, ix)
        child_index == item.child_ix
    IN  IF IsSome(item.parent)
        THEN LET parent == get_item(m, Unwrap(item.parent))
             IN  IF child_index > 0
                 THEN Some(child(parent, child_index - 1))
                 ELSE None
        ELSE IF child_index > 0
             THEN Some(m.roots[child_index])
             ELSE None

\* The result of an uncle search: the node found, the number of recursive
\* calls it took, and whether the recursion ran out of stack.
UncleResult(value, frames, overflow) ==
    [value |-> value, frames |-> frames, overflow |-> overflow]

\* next_uncle, entered with `frames` recursive calls already on the stack.
RECURSIVE next_uncle(_, _, _)

\* next_uncle recursing on the node it was called for, item.index(), where
\* parent.index() belongs.
RECURSIVE next_uncle_from_self(_, _, _)
next_uncle_from_self(m, ix, frames) ==
    IF frames >= StackLimit THEN UncleResult(None, frames, TRUE)
    ELSE
    LET item == get_item(m, ix)
    IN  IF IsSome(item.parent)
        THEN LET parent == get_item(m, Unwrap(item.parent))
                 child_index == parent.child_ix
             IN  IF IsSome(parent.parent)
                 THEN LET grandparent == get_item(m, Unwrap(parent.parent))
                      IN  IF child_count(grandparent) > child_index + 1
                          THEN UncleResult(Some(child(grandparent, child_index + 1)),
                                           frames, FALSE)
                          ELSE next_uncle_from_self(m, item.ix, frames + 1)
                 ELSE IF Len(m.roots) > child_index + 1
                      THEN UncleResult(Some(m.roots[child_index + 2]), frames, FALSE)
                      ELSE UncleResult(None, frames, FALSE)
        ELSE UncleResult(None, frames, FALSE)

next_uncle(m, ix, frames) ==
    IF frames >= StackLimit THEN UncleResult(None, frames, TRUE)
    ELSE
    LET item == get_item(m, ix)
    IN  IF IsSome(item.parent)
        THEN LET parent == get_item(m, Unwrap(item.parent))
                 child_index == parent.child_ix
             IN  IF IsSome(parent.parent)
                 THEN LET grandparent == get_item(m, Unwrap(parent.parent))
                      IN  IF child_count(grandparent) > child_index + 1
                          THEN UncleResult(Some(child(grandparent, child_index + 1)),
                                           frames, FALSE)
                          ELSE next_uncle(m, parent.ix, frames + 1)
                 ELSE IF Len(m.roots) > child_index + 1
                      THEN UncleResult(Some(m.roots[child_index + 2]), frames, FALSE)
                      ELSE UncleResult(None, frames, FALSE)
        ELSE UncleResult(None, frames, FALSE)

RECURSIVE prev_uncle(_, _, _)
prev_uncle(m, ix, frames) ==
    IF frames >= StackLimit THEN UncleResult(None, frames, TRUE)
    ELSE
    LET item == get_item(m, ix)
    IN  IF IsSome(item.parent)
        THEN LET parent == get_item(m, Unwrap(item.parent))
                 child_index == parent.child_ix
             IN  IF IsSome(parent.parent)
                 THEN LET grandparent == get_item(m, Unwrap(parent.parent))
                      IN  IF child_index > 0
                          THEN UncleResult(Some(child(grandparent, child_index - 1)),
                                           frames, FALSE)
                          ELSE prev_uncle(m, parent.ix, frames + 1)
                 ELSE IF child_index > 0
                      THEN UncleResult(Some(m.roots[child_index]), frames, FALSE)
                      ELSE UncleResult(None, frames, FALSE)
        ELSE UncleResult(None, frames, FALSE)

\* ---------------------------------------------------------------- state
VARIABLES
    status,         \* the editor's status line, as last set by set_status/set_error
    pending,        \* cx.callback holds the future of a document_symbols request
    open,           \* a TreeView lies on the compositor
    model,          \* TreeView.model, the LspTreeModel
    is_collapsed,   \* TreeView.is_collapsed
    focus,          \* TreeView.focus
    focused_row,    \* TreeView.focused_row
    on_item_focus,  \* TreeView.on_item_focus is Some
    rows,           \* the rows Vec of the last render
    event,          \* the event last handed to handle_event
    calls,          \* the indices the callback was invoked with while handling it
    panicked,       \* the thread has panicked
    tree,           \* a helix-tui TreeModel (widgets/tree.rs) over the same forest
    tree_calls,     \* the rows its focus callback was invoked with by the last call
    drawn,          \* what the last Widget::render of `tree` did
    depth_call      \* a call of TreeModel::depth: its locals and where it stands

vars == <<status, pending, open, model, is_collapsed, focus, focused_row,
          on_item_focus, rows, event, calls, panicked,
          tree, tree_calls, drawn, depth_call>>

\* The state of the library code the symbol picker does not drive.
engines == <<tree, tree_calls, drawn, depth_call>>

view == <<model, is_collapsed, focus, focused_row, on_item_focus, rows>>
handled == <<event, calls>>

EmptyModel == [roots |-> <<>>, lsp_items |-> <<>>]

\* ------------------------------------------------------------- TreeView
\* What a cursor move leaves behind: the focus, the callback invocations and
\* whether an uncle search overflowed the stack on the way.
Moved(f, c, o) == [focus |-> f, calls |-> c, overflow |-> o]

\* focus_first focusing Index(0) whether or not there is a root.
focus_first_index_zero(m) == Some(0)

focus_first(m) == get_first(m)

\* move_cursor_down without the next_uncle fallback of the or_else.
move_cursor_down_no_uncle(m, collapsed, foc, callback) ==
    IF ~IsSome(foc) THEN Moved(focus_first(m), <<>>, FALSE)
    ELSE
    LET ix == Unwrap(foc)
        item == get_item(m, ix)
        stepped == IF child_count(item) = 0 \/ ix \in collapsed
                   THEN OrElse(next_sibling(m, ix), foc)
                   ELSE Some(child(item, 0))
    IN  Moved(stepped,
              IF stepped # Some(ix) /\ callback THEN <<ix>> ELSE <<>>,
              FALSE)

\* move_cursor_down handing the callback the index the focus moved to, as
\* move_cursor_up does.
move_cursor_down_new_index(m, collapsed, foc, callback) ==
    IF ~IsSome(foc) THEN Moved(focus_first(m), <<>>, FALSE)
    ELSE
    LET ix == Unwrap(foc)
        item == get_item(m, ix)
        sibling == next_sibling(m, ix)
        uncle == next_uncle(m, ix, 0)
        stepped == IF child_count(item) = 0 \/ ix \in collapsed
                   THEN OrElse(OrElse(sibling, uncle.value), foc)
                   ELSE Some(child(item, 0))
    IN  Moved(stepped,
              IF stepped # Some(ix) /\ callback THEN <<Unwrap(stepped)>> ELSE <<>>,
              FALSE)

\* move_cursor_down wrapping around to the first root past the last node.
move_cursor_down_wrap(m, collapsed, foc, callback) ==
    IF ~IsSome(foc) THEN Moved(focus_first(m), <<>>, FALSE)
    ELSE
    LET ix == Unwrap(foc)
        item == get_item(m, ix)
        sibling == next_sibling(m, ix)
        uncle == next_uncle(m, ix, 0)
        stepped == IF child_count(item) = 0 \/ ix \in collapsed
                   THEN OrElse(OrElse(sibling, uncle.value), get_first(m))
                   ELSE Some(child(item, 0))
    IN  Moved(stepped,
              IF stepped # Some(ix) /\ callback THEN <<ix>> ELSE <<>>,
              FALSE)

\* move_cursor_down stepping to the first child of a collapsed node too.
move_cursor_down_into_collapsed(m, collapsed, foc, callback) ==
    IF ~IsSome(foc) THEN Moved(focus_first(m), <<>>, FALSE)
    ELSE
    LET ix == Unwrap(foc)
        item == get_item(m, ix)
        sibling == next_sibling(m, ix)
        uncle == next_uncle(m, ix, 0)
        stepped == IF child_count(item) = 0
                   THEN OrElse(OrElse(sibling, uncle.value), foc)
                   ELSE Some(child(item, 0))
    IN  Moved(stepped,
              IF stepped # Some(ix) /\ callback THEN <<ix>> ELSE <<>>,
              FALSE)

move_cursor_down(m, collapsed, foc, callback) ==
    IF ~IsSome(foc) THEN Moved(focus_first(m), <<>>, FALSE)
    ELSE
    LET ix == Unwrap(foc)
        item == get_item(m, ix)
        sibling == next_sibling(m, ix)
        uncle == next_uncle(m, ix, 0)
        stepped == IF child_count(item) = 0 \/ ix \in collapsed
                   THEN OrElse(OrElse(sibling, uncle.value), foc)
                   ELSE Some(child(item, 0))
        overflow == (child_count(item) = 0 \/ ix \in collapsed)
                        /\ ~IsSome(sibling) /\ uncle.overflow
    IN  Moved(stepped,
              IF stepped # Some(ix) /\ callback THEN <<ix>> ELSE <<>>,
              overflow)

\* move_cursor_up looking for the next sibling where the previous belongs.
move_cursor_up_next_sibling(m, foc, callback) ==
    IF ~IsSome(foc) THEN Moved(focus_first(m), <<>>, FALSE)
    ELSE
    LET ix == Unwrap(foc)
        item == get_item(m, ix)
        target == OrElse(next_sibling(m, ix), item.parent)
    IN  IF IsSome(target)
        THEN Moved(target, IF callback THEN <<Unwrap(target)>> ELSE <<>>, FALSE)
        ELSE Moved(foc, <<>>, FALSE)

\* move_cursor_up invoking the callback for the first focus as well.
move_cursor_up_first_calls(m, foc, callback) ==
    IF ~IsSome(foc)
    THEN Moved(focus_first(m),
               IF callback /\ IsSome(focus_first(m))
               THEN <<Unwrap(focus_first(m))>> ELSE <<>>,
               FALSE)
    ELSE
    LET ix == Unwrap(foc)
        item == get_item(m, ix)
        target == OrElse(prev_sibling(m, ix), item.parent)
    IN  IF IsSome(target)
        THEN Moved(target, IF callback THEN <<Unwrap(target)>> ELSE <<>>, FALSE)
        ELSE Moved(foc, <<>>, FALSE)

\* move_cursor_up handing the callback the index the focus left, as
\* move_cursor_down does.
move_cursor_up_prev_index(m, foc, callback) ==
    IF ~IsSome(foc) THEN Moved(focus_first(m), <<>>, FALSE)
    ELSE
    LET ix == Unwrap(foc)
        item == get_item(m, ix)
        target == OrElse(prev_sibling(m, ix), item.parent)
    IN  IF IsSome(target)
        THEN Moved(target, IF callback THEN <<ix>> ELSE <<>>, FALSE)
        ELSE Moved(foc, <<>>, FALSE)

move_cursor_up(m, foc, callback) ==
    IF ~IsSome(foc) THEN Moved(focus_first(m), <<>>, FALSE)
    ELSE
    LET ix == Unwrap(foc)
        item == get_item(m, ix)
        target == OrElse(prev_sibling(m, ix), item.parent)
    IN  IF IsSome(target)
        THEN Moved(target, IF callback THEN <<Unwrap(target)>> ELSE <<>>, FALSE)
        ELSE Moved(foc, <<>>, FALSE)

\* toggle_collapse that inserts without trying to remove first.
toggle_collapse_insert_only(collapsed, ix) == collapsed \cup {ix}

toggle_collapse(collapsed, ix) ==
    IF ix \in collapsed THEN collapsed \ {ix} ELSE collapsed \cup {ix}

\* One rendered line, format!("{indent}{indicator}{}", item.render()): `indent`
\* spaces, then the indicator glyph (if any), then the symbol's name.
Line(indent, indicator, text) ==
    [indent |-> indent, indicator |-> indicator, text |-> text]

\* The state render_rows works on: the target Vec and self.focused_row.
Rendered(target, row) == [target |-> target, focused_row |-> row]

\* render_rows, and its loop over the children from position `row` on.
RECURSIVE render_rows(_, _, _, _, _, _), render_children(_, _, _, _, _, _, _)

\* render_rows without the early return for a collapsed node.
render_rows_descends(m, collapsed, foc, ix, level, st) ==
    LET item == get_item(m, ix)
        count == child_count(item)
        indicator == IF count > 0
                     THEN IF ix \in collapsed THEN "collapsed" ELSE "expanded"
                     ELSE ""
        target == Append(st.target, Line(level, indicator, item.item.name))
        row == IF Some(ix) = foc THEN Some(Len(target) - 1) ELSE st.focused_row
    IN  render_children(m, collapsed, foc, ix, 0, level, Rendered(target, row))

\* render_rows with the two indicator glyphs the wrong way round.
render_rows_glyphs_swapped(m, collapsed, foc, ix, level, st) ==
    LET item == get_item(m, ix)
        count == child_count(item)
        collapsed_here == count > 0 /\ ix \in collapsed
        indicator == IF count > 0
                     THEN IF ix \in collapsed THEN "expanded" ELSE "collapsed"
                     ELSE ""
        target == Append(st.target, Line(level, indicator, item.item.name))
        row == IF Some(ix) = foc THEN Some(Len(target) - 1) ELSE st.focused_row
    IN  IF collapsed_here THEN Rendered(target, row)
        ELSE render_children(m, collapsed, foc, ix, 0, level, Rendered(target, row))

\* render_rows recording target.len() for the focused row, one past the row
\* just pushed.
render_rows_one_past(m, collapsed, foc, ix, level, st) ==
    LET item == get_item(m, ix)
        count == child_count(item)
        collapsed_here == count > 0 /\ ix \in collapsed
        indicator == IF count > 0
                     THEN IF ix \in collapsed THEN "collapsed" ELSE "expanded"
                     ELSE ""
        target == Append(st.target, Line(level, indicator, item.item.name))
        row == IF Some(ix) = foc THEN Some(Len(target)) ELSE st.focused_row
    IN  IF collapsed_here THEN Rendered(target, row)
        ELSE render_children(m, collapsed, foc, ix, 0, level, Rendered(target, row))

render_rows(m, collapsed, foc, ix, level, st) ==
    LET item == get_item(m, ix)
        count == child_count(item)
        collapsed_here == count > 0 /\ ix \in collapsed
        indicator == IF count > 0
                     THEN IF ix \in collapsed THEN "collapsed" ELSE "expanded"
                     ELSE ""
        target == Append(st.target, Line(level, indicator, item.item.name))
        row == IF Some(ix) = foc THEN Some(Len(target) - 1) ELSE st.focused_row
    IN  IF collapsed_here THEN Rendered(target, row)
        ELSE render_children(m, collapsed, foc, ix, 0, level, Rendered(target, row))

render_children(m, collapsed, foc, ix, row, level, st) ==
    IF row >= child_count(get_item(m, ix)) THEN st
    ELSE render_children(m, collapsed, foc, ix, row + 1, level,
            render_rows(m, collapsed, foc, child(get_item(m, ix), row), level + 2, st))

\* The loop of Component::render over the roots, from position `index` on.
RECURSIVE render_roots(_, _, _, _, _)
render_roots(m, collapsed, foc, index, st) ==
    IF Len(m.roots) <= index THEN st
    ELSE render_roots(m, collapsed, foc, index + 1,
            render_rows(m, collapsed, foc, m.roots[index + 1], 0, st))

\* Component::render: the rows and the focused row it computes.
render(m, collapsed, foc) == render_roots(m, collapsed, foc, 0, Rendered(<<>>, None))

\* The loop of Component::render that paints the rows onto the caller's
\* surface: one line per row up to the height of the inner area, the line of
\* self.focused_row in the highlight style.
paint(target, row, height) ==
    LET painted == IF Len(target) < height THEN Len(target) ELSE height
    IN  [k \in 1 .. painted |->
            [line |-> target[k], highlight |-> (Some(k - 1) = row)]]

\* ------------------------------------------- helix-tui, widgets/tree.rs
\* TreeModel<COLUMNS, RowData>: the forest as parallel Vecs indexed by RowRef
\* (`data`, the payload of the rows, plays no part in navigation), and the
\* Focus with its row and whether a callback is registered.
EmptyTree ==
    [roots |-> <<>>, collapsed |-> <<>>, parent |-> <<>>, child_ref |-> <<>>,
     children |-> <<>>, focus |-> [row |-> None, callback |-> FALSE]]

tree_next_sibling(t, ix) ==
    LET child_index == t.child_ref[ix + 1]
    IN  IF IsSome(t.parent[ix + 1])
        THEN LET children == t.children[Unwrap(t.parent[ix + 1]) + 1]
             IN  IF Len(children) > child_index + 1
                 THEN Some(children[child_index + 2])
                 ELSE None
        ELSE IF Len(t.roots) > child_index + 1
             THEN Some(t.roots[child_index + 2])
             ELSE None

\* Among the roots the source reads self.roots[*child_index], the entry of
\* the node itself.
tree_prev_sibling(t, ix) ==
    LET child_index == t.child_ref[ix + 1]
    IN  IF IsSome(t.parent[ix + 1])
        THEN IF child_index > 0
             THEN Some(t.children[Unwrap(t.parent[ix + 1]) + 1][child_index])
             ELSE None
        ELSE IF child_index > 0
             THEN Some(t.roots[child_index + 1])
             ELSE None

RECURSIVE tree_next_uncle(_, _)
tree_next_uncle(t, ix) ==
    IF IsSome(t.parent[ix + 1])
    THEN LET parent_ix == Unwrap(t.parent[ix + 1])
             child_index == t.child_ref[parent_ix + 1]
         IN  IF IsSome(t.parent[parent_ix + 1])
             THEN LET grandparent_children ==
                            t.children[Unwrap(t.parent[parent_ix + 1]) + 1]
                  IN  IF Len(grandparent_children) > child_index + 1
                      THEN Some(grandparent_children[child_index + 2])
                      ELSE tree_next_uncle(t, parent_ix)
             ELSE IF Len(t.roots) > child_index + 1
                  THEN Some(t.roots[child_index + 2])
                  ELSE None
    ELSE None

RECURSIVE tree_prev_uncle(_, _)
tree_prev_uncle(t, ix) ==
    IF IsSome(t.parent[ix + 1])
    THEN LET parent_ix == Unwrap(t.parent[ix + 1])
             child_index == t.child_ref[parent_ix + 1]
         IN  IF IsSome(t.parent[parent_ix + 1])
             THEN IF child_index > 0
                  THEN Some(t.children[Unwrap(t.parent[parent_ix + 1]) + 1][child_index])
                  ELSE tree_prev_uncle(t, parent_ix)
             ELSE IF child_index > 0
                  THEN Some(t.roots[child_index])
                  ELSE None
    ELSE None

\* self.roots.get(0).map(|x| *x)
tree_focus_first(t) == IF Len(t.roots) > 0 THEN Some(t.roots[1]) ELSE None

\* What a cursor move of the TreeModel leaves behind: focus.row and the rows
\* the callback was invoked with.
TreeMoved(row, c) == [row |-> row, calls |-> c]

tree_move_cursor_down(t) ==
    IF ~IsSome(t.focus.row) THEN TreeMoved(tree_focus_first(t), <<>>)
    ELSE
    LET ix == Unwrap(t.focus.row)
        children == t.children[ix + 1]
        stepped == IF Len(children) = 0 \/ t.collapsed[ix + 1]
                   THEN OrElse(OrElse(tree_next_sibling(t, ix), tree_next_uncle(t, ix)),
                               t.focus.row)
                   ELSE Some(children[1])
    IN  TreeMoved(stepped,
                  IF stepped # Some(ix) /\ t.focus.callback THEN <<ix>> ELSE <<>>)

tree_move_cursor_up(t) ==
    IF ~IsSome(t.focus.row) THEN TreeMoved(tree_focus_first(t), <<>>)
    ELSE
    LET ix == Unwrap(t.focus.row)
        target == OrElse(tree_prev_sibling(t, ix), t.parent[ix + 1])
    IN  IF IsSome(target)
        THEN TreeMoved(target, IF t.focus.callback THEN <<Unwrap(target)>> ELSE <<>>)
        ELSE TreeMoved(t.focus.row, <<>>)

\* self.collapsed[*ix] ^= true
tree_toggle_collapse(t, ix) == [t.collapsed EXCEPT ![ix + 1] = ~@]

\* What render_col has drawn so far: one cell per call of render_cell, with
\* the indicator set before it (column 0 only) and whether the focus style
\* was used.
Cell(column, row, indicator, focused) ==
    [column |-> column, row |-> row, indicator |-> indicator, focused |-> focused]

\* render_col, and its loop over the children from position `k` on.
RECURSIVE render_col(_, _, _, _), render_col_children(_, _, _, _, _)
render_col(t, column, row, cells) ==
    LET children == t.children[row + 1]
        is_collapsed_here == Len(children) > 0 /\ t.collapsed[row + 1]
        indicator == IF Len(children) > 0 /\ column = 0
                     THEN IF t.collapsed[row + 1] THEN "collapsed" ELSE "expanded"
                     ELSE ""
        drawn_here == Append(cells,
                             Cell(column, row, indicator, t.focus.row = Some(row)))
    IN  IF is_collapsed_here THEN drawn_here
        ELSE render_col_children(t, column, row, 1, drawn_here)

render_col_children(t, column, row, k, cells) ==
    IF k > Len(t.children[row + 1]) THEN cells
    ELSE render_col_children(t, column, row, k + 1,
            render_col(t, column, t.children[row + 1][k], cells))

\* The state of Widget::render: the local `index`, the values of index that
\* self.roots was subscripted with, the cells drawn, and whether a subscript
\* was out of bounds (a panic).
Drawing(columns, index, accesses, cells, out_of_bounds) ==
    [columns |-> columns, index |-> index, accesses |-> accesses,
     cells |-> cells, out_of_bounds |-> out_of_bounds]

NotDrawn == Drawing(0, 0, <<>>, <<>>, FALSE)

\* `for row in &self.roots` of Widget::render, from position k on: the
\* subscript self.roots[index], render_col for the row, index = index + 1.
RECURSIVE Widget_render_roots(_, _, _, _)
Widget_render_roots(t, col, k, st) ==
    IF k > Len(t.roots) \/ st.out_of_bounds THEN st
    ELSE IF st.index >= Len(t.roots)
    THEN [st EXCEPT !.accesses = Append(@, st.index), !.out_of_bounds = TRUE]
    ELSE Widget_render_roots(t, col, k + 1,
            [st EXCEPT !.accesses = Append(@, st.index),
                       !.cells = render_col(t, col, t.roots[k], @),
                       !.index = @ + 1])

\* `for col in 0..COLUMNS` of Widget::render, from column col on.  `index` is
\* declared before this loop and lives across the columns.
RECURSIVE Widget_render_columns(_, _, _)
Widget_render_columns(t, col, st) ==
    IF col >= st.columns \/ st.out_of_bounds THEN st
    ELSE Widget_render_columns(t, col + 1, Widget_render_roots(t, col, 1, st))

\* Widget::render for &TreeModel<COLUMNS, RowData>
Widget_render(t, columns) ==
    Widget_render_columns(t, 0, Drawing(columns, 0, <<>>, <<>>, FALSE))

\* ------------------------------------------------ TreeModel::depth
\* A call of depth(ix): idle before the first call, in the loop, or returned.
NoDepthCall == [pc |-> "idle", ix |-> 0, iter |-> 0, depth |-> 0]

\* All of the code outside the symbol picker at rest.
EnginesIdle ==
    /\ tree = EmptyTree
    /\ tree_calls = <<>>
    /\ drawn = NotDrawn
    /\ depth_call = NoDepthCall

\* ----------------------------------------------------------- the actions
Init ==
    /\ status = ""
    /\ pending = FALSE
    /\ open = FALSE
    /\ model = EmptyModel
    /\ is_collapsed = {}
    /\ focus = None
    /\ focused_row = None
    /\ on_item_focus = FALSE
    /\ rows = <<>>
    /\ event = "none"
    /\ calls = <<>>
    /\ panicked = FALSE
    /\ EnginesIdle

\* tree_symbol_picker up to cx.callback, for each state of the language server.
\* The command is run once: on a fresh editor, with no request under way.
TreeSymbolPicker(server) ==
    /\ ~panicked /\ ~open /\ ~pending
    /\ status = "" /\ event = "none"
    /\ IF server = "absent"
       THEN status' = "Language server not active for current buffer"
                /\ pending' = FALSE
       ELSE IF server = "unsupported"
       THEN status' = "Language server does not support document symbols"
                /\ pending' = FALSE
       ELSE status' = status /\ pending' = TRUE
    /\ UNCHANGED <<open, view, handled, panicked>>
    /\ UNCHANGED engines

\* The closure opening a view for every response that arrived, whatever its
\* shape.
Callback_any_shape(response) ==
    /\ ~panicked /\ pending
    /\ pending' = FALSE
    /\ IF IsSome(response)
       THEN /\ open' = TRUE
            /\ model' = LspTreeModel_new(Unwrap(response).symbols)
            /\ is_collapsed' = {}
            /\ focus' = None
            /\ focused_row' = None
            /\ on_item_focus' = FALSE
            /\ rows' = <<>>
       ELSE UNCHANGED <<open, view>>
    /\ UNCHANGED <<status, handled, panicked>>
    /\ UNCHANGED engines

\* The closure handed to cx.callback, run with the completed response.
Callback(response) ==
    /\ ~panicked /\ pending
    /\ pending' = FALSE
    /\ IF IsSome(response) /\ Unwrap(response).kind = "Nested"
       THEN /\ open' = TRUE
            /\ model' = LspTreeModel_new(Unwrap(response).symbols)
            /\ is_collapsed' = {}
            /\ focus' = None
            /\ focused_row' = None
            /\ on_item_focus' = FALSE
            /\ rows' = <<>>
       ELSE UNCHANGED <<open, view>>
    /\ UNCHANGED <<status, handled, panicked>>
    /\ UNCHANGED engines

\* TreeView::set_on_item_focus_callback.  A caller reaches the view only
\* before the compositor owns it, that is before the first event and render.
SetOnItemFocusCallback ==
    /\ ~panicked /\ open
    /\ event = "none" /\ rows = <<>> /\ ~on_item_focus
    /\ on_item_focus' = TRUE
    /\ UNCHANGED <<status, pending, open, model, is_collapsed, focus, focused_row,
                   rows, handled, panicked>>
    /\ UNCHANGED engines

\* Component::render
Render ==
    /\ ~panicked /\ open
    /\ LET r == render(model, is_collapsed, focus)
       IN  rows' = r.target /\ focused_row' = r.focused_row
    /\ UNCHANGED <<status, pending, open, model, is_collapsed, focus,
                   on_item_focus, handled, panicked>>
    /\ UNCHANGED engines

\* handle_event, key!('q'): the handler touches nothing of the view; the close
\* closure it returns pops the view off the compositor into last_picker.
KeyQ ==
    /\ ~panicked /\ open
    /\ event' = "q" /\ calls' = <<>>
    /\ open' = FALSE
    /\ UNCHANGED <<status, pending, view, panicked>>
    /\ UNCHANGED engines

\* handle_event, key!(Up): move_cursor_up, then self.focus.unwrap() for the log.
KeyUp ==
    /\ ~panicked /\ open
    /\ LET mv == move_cursor_up(model, focus, on_item_focus)
       IN  /\ focus' = mv.focus
           /\ calls' = mv.calls
           /\ panicked' = (mv.overflow \/ ~IsSome(mv.focus))
    /\ event' = "Up"
    /\ UNCHANGED <<status, pending, open, model, is_collapsed, focused_row,
                   on_item_focus, rows>>
    /\ UNCHANGED engines

\* handle_event, key!(Down): move_cursor_down, then self.focus.unwrap().
KeyDown ==
    /\ ~panicked /\ open
    /\ LET mv == move_cursor_down(model, is_collapsed, focus, on_item_focus)
       IN  /\ focus' = mv.focus
           /\ calls' = mv.calls
           /\ panicked' = (mv.overflow \/ ~IsSome(mv.focus))
    /\ event' = "Down"
    /\ UNCHANGED <<status, pending, open, model, is_collapsed, focused_row,
                   on_item_focus, rows>>
    /\ UNCHANGED engines

\* handle_event, key!(Enter)
KeyEnter ==
    /\ ~panicked /\ open
    /\ is_collapsed' = IF IsSome(focus)
                       THEN toggle_collapse(is_collapsed, Unwrap(focus))
                       ELSE is_collapsed
    /\ event' = "Enter" /\ calls' = <<>>
    /\ UNCHANGED <<status, pending, open, model, focus, focused_row,
                   on_item_focus, rows, panicked>>
    /\ UNCHANGED engines

\* handle_event, any other key and any event that is no key.
Unhandled(e) ==
    /\ ~panicked /\ open
    /\ event' = e /\ calls' = <<>>
    /\ UNCHANGED <<status, pending, open, view, panicked>>
    /\ UNCHANGED engines

Next ==
    \/ \E server \in {"absent", "unsupported", "ready"} : TreeSymbolPicker(server)
    \/ \E response \in Responses : Callback(response)
    \/ SetOnItemFocusCallback
    \/ Render
    \/ KeyQ
    \/ KeyUp
    \/ KeyDown
    \/ KeyEnter
    \/ \E e \in {"other key", "no key"} : Unhandled(e)

\* handle_event answering Consumed(None) from its fall-through arm too.
result_always_consumed ==
    IF event = "none" \/ panicked THEN "none"
    ELSE IF event = "q" THEN "ConsumedClose"
    ELSE "Consumed"

\* The EventResult handle_event returned for `event`: a function of the arm
\* of the match that ran (a handler that panicked returned nothing).
result ==
    IF event = "none" \/ panicked THEN "none"
    ELSE IF event = "q" THEN "ConsumedClose"
    ELSE IF event \in {"Up", "Down", "Enter"} THEN "Consumed"
    ELSE "Ignored"

Spec == Init /\ [][Next]_vars

\* ---------------------------------------- both engines over one forest
\* The helix-tui TreeModel a caller fills in for the forest of arena m (its
\* fields are public, there is no constructor): nothing collapsed, no focus.
TreeOf(m, callback) ==
    [roots     |-> m.roots,
     collapsed |-> [k \in 1 .. Len(m.lsp_items) |-> FALSE],
     parent    |-> [k \in 1 .. Len(m.lsp_items) |-> m.lsp_items[k].parent],
     child_ref |-> [k \in 1 .. Len(m.lsp_items) |-> m.lsp_items[k].child_ix],
     children  |-> [k \in 1 .. Len(m.lsp_items) |-> m.lsp_items[k].children],
     focus     |-> [row |-> None, callback |-> callback]]

\* A TreeView (TreeView::new) and a TreeModel over the same forest, with or
\* without a focus callback; their methods are then called side by side.
InitNav ==
    /\ status = "" /\ pending = FALSE /\ open = FALSE
    /\ \E symbols \in NestedSymbols : model = LspTreeModel_new(symbols)
    /\ is_collapsed = {}
    /\ focus = None
    /\ focused_row = None
    /\ on_item_focus \in BOOLEAN
    /\ rows = <<>>
    /\ event = "none"
    /\ calls = <<>>
    /\ panicked = FALSE
    /\ tree = TreeOf(model, on_item_focus)
    /\ tree_calls = <<>>
    /\ drawn = NotDrawn
    /\ depth_call = NoDepthCall

\* TreeView::move_cursor_down and TreeModel::move_cursor_down
MoveCursorDown ==
    /\ ~panicked
    /\ LET mv == move_cursor_down(model, is_collapsed, focus, on_item_focus)
           tmv == tree_move_cursor_down(tree)
       IN  /\ focus' = mv.focus
           /\ calls' = mv.calls
           /\ panicked' = mv.overflow
           /\ tree' = [tree EXCEPT !.focus.row = tmv.row]
           /\ tree_calls' = tmv.calls
    /\ event' = "Down"
    /\ UNCHANGED <<status, pending, open, model, is_collapsed, focused_row,
                   on_item_focus, rows, drawn, depth_call>>

\* TreeView::move_cursor_up and TreeModel::move_cursor_up
MoveCursorUp ==
    /\ ~panicked
    /\ LET mv == move_cursor_up(model, focus, on_item_focus)
           tmv == tree_move_cursor_up(tree)
       IN  /\ focus' = mv.focus
           /\ calls' = mv.calls
           /\ panicked' = mv.overflow
           /\ tree' = [tree EXCEPT !.focus.row = tmv.row]
           /\ tree_calls' = tmv.calls
    /\ event' = "Up"
    /\ UNCHANGED <<status, pending, open, model, is_collapsed, focused_row,
                   on_item_focus, rows, drawn, depth_call>>

\* TreeView::toggle_collapse(ix) and TreeModel::toggle_collapse(ix)
ToggleCollapse(ix) ==
    /\ ~panicked
    /\ ix < Len(model.lsp_items)
    /\ is_collapsed' = toggle_collapse(is_collapsed, ix)
    /\ tree' = [tree EXCEPT !.collapsed = tree_toggle_collapse(tree, ix)]
    /\ event' = "Toggle" /\ calls' = <<>> /\ tree_calls' = <<>>
    /\ UNCHANGED <<status, pending, open, model, focus, focused_row,
                   on_item_focus, rows, panicked, drawn, depth_call>>

NextNav ==
    \/ MoveCursorDown
    \/ MoveCursorUp
    \/ \E ix \in 0 .. (MaxNodes - 1) : ToggleCollapse(ix)

SpecNav == InitNav /\ [][NextNav]_vars

\* --------------------------------------------------- calls of depth
\* TreeModel::parent of the LspTreeModel
parent(m, ix) == m.lsp_items[ix + 1].parent

\* An arena as the picker builds it, and nobody calling depth yet.
InitDepth ==
    /\ status = "" /\ pending = FALSE /\ open = FALSE
    /\ \E symbols \in NestedSymbols : model = LspTreeModel_new(symbols)
    /\ is_collapsed = {}
    /\ focus = None
    /\ focused_row = None
    /\ on_item_focus = FALSE
    /\ rows = <<>>
    /\ event = "none"
    /\ calls = <<>>
    /\ panicked = FALSE
    /\ tree = EmptyTree
    /\ tree_calls = <<>>
    /\ drawn = NotDrawn
    /\ depth_call = NoDepthCall

\* depth(ix) is entered: let mut depth = 0; let mut iter = ix;
DepthCall(ix) ==
    /\ depth_call.pc \in {"idle", "returned"}
    /\ ix < Len(model.lsp_items)
    /\ depth_call' = [pc |-> "loop", ix |-> ix, iter |-> ix, depth |-> 0]
    /\ UNCHANGED <<status, pending, open, view, handled, panicked,
                   tree, tree_calls, drawn>>

\* One turn of `while let Some(parent) = self.parent(&ix)`: the condition
\* asks for the parent of ix, the body counts and moves iter.  The counter
\* is followed up to MaxIterations.
DepthIterate ==
    /\ depth_call.pc = "loop"
    /\ IsSome(parent(model, depth_call.ix))
    /\ depth_call.depth < MaxIterations
    /\ depth_call' = [depth_call EXCEPT
                        !.depth = @ + 1,
                        !.iter = Unwrap(parent(model, depth_call.ix))]
    /\ UNCHANGED <<status, pending, open, view, handled, panicked,
                   tree, tree_calls, drawn>>

\* The condition of the loop fails and depth is returned.
DepthReturn ==
    /\ depth_call.pc = "loop"
    /\ ~IsSome(parent(model, depth_call.ix))
    /\ depth_call' = [depth_call EXCEPT !.pc = "returned"]
    /\ UNCHANGED <<status, pending, open, view, handled, panicked,
                   tree, tree_calls, drawn>>

NextDepth ==
    \/ \E ix \in 0 .. (MaxNodes - 1) : DepthCall(ix)
    \/ DepthIterate
    \/ DepthReturn

SpecDepth == InitDepth /\ [][NextDepth]_vars

\* ----------------------------------------------- rendering the widget
\* A TreeModel as a caller may hand it to Widget::render: any forest, any
\* rows collapsed, any row or none focused.
InitWidget ==
    /\ status = "" /\ pending = FALSE /\ open = FALSE
    /\ model = EmptyModel
    /\ is_collapsed = {}
    /\ focus = None
    /\ focused_row = None
    /\ on_item_focus = FALSE
    /\ rows = <<>>
    /\ event = "none"
    /\ calls = <<>>
    /\ panicked = FALSE
    /\ \E symbols \in NestedSymbols :
        LET t == TreeOf(LspTreeModel_new(symbols), FALSE)
        IN  \E collapsed \in [1 .. Len(t.parent) -> BOOLEAN],
               row \in {None} \cup { Some(ix) : ix \in 0 .. (Len(t.parent) - 1) } :
                tree = [t EXCEPT !.collapsed = collapsed, !.focus.row = row]
    /\ tree_calls = <<>>
    /\ drawn = NotDrawn
    /\ depth_call = NoDepthCall

\* Widget::render for &TreeModel<COLUMNS, RowData>; a subscript out of bounds
\* panics.
WidgetRender(columns) ==
    /\ ~panicked
    /\ drawn' = Widget_render(tree, columns)
    /\ panicked' = drawn'.out_of_bounds
    /\ UNCHANGED <<status, pending, open, view, handled, tree, tree_calls,
                   depth_call>>

NextWidget == \E columns \in 1 .. MaxColumns : WidgetRender(columns)

SpecWidget == InitWidget /\ [][NextWidget]_vars

\* ------------------------------------------------------------ the claims
\* The nodes of an arena, and notions of the forest read off its links.
Nodes(m) == 0 .. (Len(m.lsp_items) - 1)

\* The list a node is an entry of: its parent's children, or the roots.
SiblingList(m, ix) ==
    IF IsSome(get_item(m, ix).parent)
    THEN get_item(m, Unwrap(get_item(m, ix).parent)).children
    ELSE m.roots

\* The proper ancestors of a node, nearest first.
RECURSIVE AncestorsOf(_, _)
AncestorsOf(m, ix) ==
    IF IsSome(get_item(m, ix).parent)
    THEN <<Unwrap(get_item(m, ix).parent)>>
            \o AncestorsOf(m, Unwrap(get_item(m, ix).parent))
    ELSE <<>>

AncestorSet(m, ix) == { AncestorsOf(m, ix)[k] : k \in 1 .. Len(AncestorsOf(m, ix)) }

count_descendants(m, ix) == Cardinality({ n \in Nodes(m) : ix \in AncestorSet(m, n) })

\* The names of a nested payload in a recursive pre-order walk.
RECURSIVE PreorderNames(_)
PreorderNames(symbols) ==
    IF symbols = <<>> THEN <<>>
    ELSE <<Head(symbols).name>> \o PreorderNames(ChildSymbols(Head(symbols)))
            \o PreorderNames(Tail(symbols))

ArenaNames(m) == [k \in 1 .. Len(m.lsp_items) |-> m.lsp_items[k].item.name]

\* C1: in every arena LspTreeModel::new builds, each node's stored ix is its
\* position in lsp_items, and the list it belongs to (its parent's children,
\* or the roots for a root) holds the node's ix at the node's child_ix.
C1_ForestInvariant ==
    open =>
        \A k \in 1 .. Len(model.lsp_items) :
            LET N == model.lsp_items[k]
            IN  /\ N.ix = k - 1
                /\ N.child_ix < Len(SiblingList(model, N.ix))
                /\ SiblingList(model, N.ix)[N.child_ix + 1] = N.ix

C1_Witness ==
    /\ open
    /\ \E n \in Nodes(model) :
        /\ IsSome(get_item(model, n).parent)
        /\ get_item(model, n).child_ix = 1
        /\ child(get_item(model, Unwrap(get_item(model, n).parent)), 1) = n
        /\ n > 2
    /\ Len(model.roots) = 1

\* C2: the arena lists the symbols in the order of a recursive pre-order walk
\* of the nested payload, and with no node collapsed every Down moves the
\* focus from unfocused to the first node, from each node to the next one of
\* that order, and from the last node nowhere: so repeated move-downs visit
\* every node exactly once in pre-order and then stay on the last.
C2_DownIsPreorder ==
    [][ /\ (pending /\ open') =>
            \A response \in Responses :
                Callback(response)
                    => ArenaNames(model') = PreorderNames(Unwrap(response).symbols)
        /\ (event' = "Down" /\ is_collapsed = {} /\ KeyDown)
                => focus' = IF ~IsSome(focus) THEN
                                IF Len(model.lsp_items) > 0 THEN Some(0) ELSE None
                            ELSE IF Unwrap(focus) + 1 < Len(model.lsp_items)
                                 THEN Some(Unwrap(focus) + 1)
                                 ELSE focus
      ]_vars

C2_Witness ==
    /\ open /\ event = "Down" /\ is_collapsed = {} /\ on_item_focus
    /\ Len(model.lsp_items) = 4
    /\ focus = Some(3)
    /\ calls = <<2>>
    /\ get_item(model, 2).parent = Some(1)
    /\ get_item(model, 3).parent = None

\* The arena of the payload A -> [B, C], B -> [D]: A = 0, B = 1, D = 2, C = 3.
ExampleModel ==
    LspTreeModel_new(
        <<[name |-> <<0>>, children |-> Some(<<
            [name |-> <<0, 0>>, children |-> Some(<<
                [name |-> <<0, 0, 0>>, children |-> None]>>)],
            [name |-> <<0, 1>>, children |-> None]>>)]>>)

\* C3: a Down from a focused node ix, with a callback registered, invokes the
\* callback exactly once with ix if the focus has changed and not at all if
\* it has not; on A -> [B, C], B -> [D] the Downs from A, B, D, C lead to
\* B, D, C, C and call it with A, B, D and not at all.
C3_DownCallback ==
    [][ (event' = "Down" /\ IsSome(focus) /\ on_item_focus /\ KeyDown) =>
            /\ calls' = IF focus' # focus THEN <<Unwrap(focus)>> ELSE <<>>
            /\ (model = ExampleModel /\ is_collapsed = {}) =>
                    /\ focus = Some(0) => (focus' = Some(1) /\ calls' = <<0>>)
                    /\ focus = Some(1) => (focus' = Some(2) /\ calls' = <<1>>)
                    /\ focus = Some(2) => (focus' = Some(3) /\ calls' = <<2>>)
                    /\ focus = Some(3) => (focus' = Some(3) /\ calls' = <<>>)
      ]_vars

C3_Witness ==
    /\ open /\ on_item_focus /\ event = "Down"
    /\ model = ExampleModel /\ is_collapsed = {}
    /\ focus = Some(3) /\ calls = <<>>

\* C4 as stated: a render with exactly the node n collapsed, n having
\* children, yields 1 + count_descendants(n) fewer rows than the render of
\* the same view with n expanded.
C4_AsStated ==
    [][ \A n \in is_collapsed :
            (is_collapsed = {n} /\ child_count(get_item(model, n)) > 0 /\ Render)
                => Len(rows') = Len(render(model, {}, focus).target)
                                    - (1 + count_descendants(model, n))
      ]_vars

\* C4 amended: a render with exactly the node n collapsed, n having children,
\* yields count_descendants(n) fewer rows than the render of the same view
\* with n expanded: the descendants go, the row of n itself stays.
C4_CollapseHidesDescendants ==
    [][ \A n \in is_collapsed :
            (is_collapsed = {n} /\ child_count(get_item(model, n)) > 0 /\ Render)
                => /\ Len(rows') = Len(render(model, {}, focus).target)
                                        - count_descendants(model, n)
                   /\ \E k \in 1 .. Len(rows') :
                        rows'[k].text = get_item(model, n).item.name
      ]_vars

C4_Witness ==
    /\ open
    /\ \E n \in Nodes(model) :
        /\ is_collapsed = {n}
        /\ count_descendants(model, n) = 2
        /\ Len(SiblingList(model, n)) = 2
        /\ rows = render(model, {n}, focus).target
        /\ Len(rows) = 2
        /\ Len(render(model, {}, focus).target) = 4

\* C5: in every view state an Enter is handled in, the Enter changes the
\* collapse set, and toggling the focused node a second time gives back the
\* collapse set from before the Enter and with it the same rendered rows; so
\* does toggling any node of the arena twice.
C5_DoubleToggle ==
    [][ (event' = "Enter" /\ IsSome(focus) /\ KeyEnter) =>
            /\ is_collapsed' # is_collapsed
            /\ \A ix \in Nodes(model) :
                toggle_collapse(toggle_collapse(is_collapsed, ix), ix) = is_collapsed
            /\ toggle_collapse(is_collapsed', Unwrap(focus)) = is_collapsed
            /\ render(model, toggle_collapse(is_collapsed', Unwrap(focus)), focus)
                    = render(model, is_collapsed, focus)
      ]_vars

\* Enter has taken the focused node out of the collapse set again, after a
\* render that showed it collapsed.
C5_Witness ==
    /\ open /\ event = "Enter" /\ IsSome(focus)
    /\ is_collapsed = {}
    /\ child_count(get_item(model, Unwrap(focus))) > 0
    /\ rows = render(model, {Unwrap(focus)}, focus).target
    /\ rows # render(model, {}, focus).target

\* C6: for every node N of an arena, roots included, the previous sibling of
\* N (if any) has N as its next sibling and the next sibling of N (if any)
\* has N as its previous sibling.
C6_SiblingSymmetry ==
    open =>
        \A N \in Nodes(model) :
            /\ IsSome(prev_sibling(model, N))
                    => next_sibling(model, Unwrap(prev_sibling(model, N))) = Some(N)
            /\ IsSome(next_sibling(model, N))
                    => prev_sibling(model, Unwrap(next_sibling(model, N))) = Some(N)

C6_Witness ==
    /\ open /\ event = "Up" /\ on_item_focus /\ IsSome(focus)
    /\ calls = focus
    /\ IsSome(next_sibling(model, Unwrap(focus)))
    /\ prev_sibling(model, Unwrap(next_sibling(model, Unwrap(focus)))) = focus
    /\ get_item(model, Unwrap(focus)).parent = None
    /\ Len(model.roots) > 2
    /\ get_item(model, Unwrap(focus)).child_ix = 1

\* Whether applying `uncle` to its own result, starting from the option o,
\* yields None within `fuel` applications.
RECURSIVE NextUncleChainEnds(_, _, _), PrevUncleChainEnds(_, _, _)
NextUncleChainEnds(m, o, fuel) ==
    IF ~IsSome(o) THEN TRUE
    ELSE IF fuel = 0 THEN FALSE
    ELSE NextUncleChainEnds(m, next_uncle(m, Unwrap(o), 0).value, fuel - 1)

PrevUncleChainEnds(m, o, fuel) ==
    IF ~IsSome(o) THEN TRUE
    ELSE IF fuel = 0 THEN FALSE
    ELSE PrevUncleChainEnds(m, prev_uncle(m, Unwrap(o), 0).value, fuel - 1)

\* C7: for every node ix of an arena, next_uncle(ix) and prev_uncle(ix) return
\* without exhausting the stack after at most depth(ix) recursive calls, and
\* applying either to its own result reaches None within depth(ix) + 1
\* applications.
C7_UncleTermination ==
    open =>
        \A ix \in Nodes(model) :
            LET depth == Len(AncestorsOf(model, ix))
                next == next_uncle(model, ix, 0)
                prev == prev_uncle(model, ix, 0)
            IN  /\ ~next.overflow
                /\ next.frames <= depth
                /\ ~prev.overflow
                /\ prev.frames <= depth
                /\ NextUncleChainEnds(model, Some(ix), depth + 1)
                /\ PrevUncleChainEnds(model, Some(ix), depth + 1)

\* A Down has moved the focus from a leaf to the node next_uncle found for it
\* after a recursive call.
C7_Witness ==
    /\ open /\ event = "Down" /\ on_item_focus /\ ~panicked
    /\ Len(calls) = 1
    /\ LET ix == calls[1]
       IN  /\ ~IsSome(next_sibling(model, ix))
           /\ child_count(get_item(model, ix)) = 0
           /\ next_uncle(model, ix, 0).frames = 1
           /\ next_uncle(model, ix, 0).value = focus
           /\ IsSome(focus)

\* C8: the arena built from zero top-level symbols has no roots and no nodes;
\* a view over it renders zero rows and marks no row focused, and a Down
\* leaves its focus at None however often it comes.
C8_EmptyInput ==
    [][ /\ (pending /\ open') =>
            \A response \in Responses :
                (Callback(response) /\ Unwrap(response).symbols = <<>>)
                    => model' = EmptyModel
        /\ (open /\ model.roots = <<>>) =>
            /\ model.lsp_items = <<>>
            /\ focus = None
            /\ render(model, is_collapsed, focus).target = <<>>
            /\ move_cursor_down(model, is_collapsed, focus, on_item_focus).focus = None
            /\ Render => (rows' = <<>> /\ focused_row' = None)
            /\ KeyDown => focus' = None
      ]_vars

C8_Witness ==
    /\ open /\ model = EmptyModel /\ event = "Down" /\ focus = None /\ rows = <<>>

\* C9 as stated: no sequence of key events handed to handle_event on a
\* well-formed arena makes it panic.
C9_NoPanic == ~panicked

\* The focused node is the last row of what render would show.
FocusOnLastRow ==
    LET r == render(model, is_collapsed, focus)
    IN  r.focused_row = Some(Len(r.target) - 1)

\* In the arena m, the sibling and uncle searches of every node answer None
\* at the edges: past the last or first sibling, and with every ancestor
\* the last or first of its siblings.
EdgeSearchesAreNone(m) ==
    LET Last(n) == get_item(m, n).child_ix + 1 = Len(SiblingList(m, n))
        First(n) == get_item(m, n).child_ix = 0
    IN  \A ix \in Nodes(m) :
            /\ Last(ix) => next_sibling(m, ix) = None
            /\ First(ix) => prev_sibling(m, ix) = None
            /\ (\A a \in AncestorSet(m, ix) : Last(a))
                    => (next_uncle(m, ix, 0).value = None
                            /\ ~next_uncle(m, ix, 0).overflow)
            /\ (\A a \in AncestorSet(m, ix) : First(a))
                    => (prev_uncle(m, ix, 0).value = None
                            /\ ~prev_uncle(m, ix, 0).overflow)

\* C10: in every arena a view is opened on, next_sibling of a last sibling
\* and prev_sibling of a first sibling are None and next_uncle (prev_uncle)
\* is None when every ancestor is the last (first) of its siblings; a Down on
\* the last visible node and an Up on the first root leave the focus where
\* it is, without a callback and without a panic.
C10_EdgesLeaveFocus ==
    [][ /\ (pending /\ open') => EdgeSearchesAreNone(model')
        /\ (event' = "Down" /\ IsSome(focus) /\ FocusOnLastRow /\ KeyDown)
                => (focus' = focus /\ calls' = <<>> /\ ~panicked')
        /\ (event' = "Up" /\ IsSome(focus) /\ focus = get_first(model) /\ KeyUp)
                => (focus' = focus /\ calls' = <<>> /\ ~panicked')
      ]_vars

\* A Down on a collapsed node that is the last row has left the focus there.
C10_Witness ==
    /\ open /\ event = "Down" /\ on_item_focus /\ ~panicked
    /\ calls = <<>>
    /\ IsSome(focus)
    /\ Unwrap(focus) \in is_collapsed
    /\ count_descendants(model, Unwrap(focus)) > 0
    /\ IsSome(get_item(model, Unwrap(focus)).parent)
    /\ FocusOnLastRow

\* C11: pressing Enter while the focused node is a leaf is a no-op: the
\* collapse set, the focus and the rendered rows all stay as they were.
C11_EnterOnLeafIsNoOp ==
    [][(/\ event' = "Enter"
        /\ IsSome(focus)
        /\ child_count(get_item(model, Unwrap(focus))) = 0
        /\ KeyEnter)
       => /\ is_collapsed' = is_collapsed
          /\ focus' = focus
          /\ render(model', is_collapsed', focus').target
                = render(model, is_collapsed, focus).target]_vars

\* C12: handle_event dispatch. Enter toggles the collapse state of exactly the
\* focused node (nothing when focus is None) and is consumed; q is consumed
\* with a close request and changes neither focus nor collapse set; any other
\* key and any event that is no key is Ignored and changes neither.
C12_Dispatch ==
    [][/\ (event' = "Enter" /\ KeyEnter)
            => /\ result' = "Consumed"
               /\ focus' = focus
               /\ IF IsSome(focus)
                  THEN /\ (is_collapsed' \ {Unwrap(focus)})
                                = (is_collapsed \ {Unwrap(focus)})
                       /\ (Unwrap(focus) \in is_collapsed')
                                = (Unwrap(focus) \notin is_collapsed)
                  ELSE is_collapsed' = is_collapsed
       /\ (event' = "q" /\ KeyQ)
            => /\ result' = "ConsumedClose"
               /\ ~open'
               /\ focus' = focus /\ is_collapsed' = is_collapsed
       /\ (event' \in {"other key", "no key"} /\ Unhandled(event'))
            => /\ result' = "Ignored"
               /\ focus' = focus /\ is_collapsed' = is_collapsed]_vars

\* An inner node was focused and Enter collapsed it, consumed.
C12_Witness ==
    /\ open /\ event = "Enter" /\ result = "Consumed"
    /\ IsSome(focus)
    /\ is_collapsed = {Unwrap(focus)}
    /\ child_count(get_item(model, Unwrap(focus))) > 0

\* The forest in pre-order, read off the links of the arena: each node of
\* `list` in order, followed by the pre-order of its own children.
RECURSIVE Preorder(_, _)
Preorder(m, list) ==
    IF list = <<>> THEN <<>>
    ELSE <<Head(list)>> \o Preorder(m, get_item(m, Head(list)).children)
                        \o Preorder(m, Tail(list))

\* The row the spec gives a node: 2 spaces per ancestor, a glyph for a node
\* with children, the node's text.
ExpectedRow(m, collapsed, ix) ==
    [indent    |-> 2 * Len(AncestorsOf(m, ix)),
     indicator |-> IF Len(get_item(m, ix).children) = 0 THEN ""
                   ELSE IF ix \in collapsed THEN "collapsed" ELSE "expanded",
     text      |-> get_item(m, ix).item.name]

\* The rows the spec expects: the pre-order of the nodes that have no
\* collapsed proper ancestor.
ExpectedRows(m, collapsed) ==
    LET shown(ix) == AncestorSet(m, ix) \cap collapsed = {}
        nodes == SelectSeq(Preorder(m, m.roots), shown)
    IN  [k \in 1 .. Len(nodes) |-> ExpectedRow(m, collapsed, nodes[k])]

\* C13: for any arena, collapse set and focus, rendering produces exactly the
\* pre-order sequence of the nodes with no collapsed proper ancestor, each
\* indented by 2 x depth and carrying the collapsed glyph (children,
\* collapsed), the expanded glyph (children, not collapsed) or none (leaf).
C13_RowsArePreorder ==
    open => render(model, is_collapsed, focus).target
                = ExpectedRows(model, is_collapsed)

\* A rendered view with a collapsed node, an expanded node and a row at
\* depth 1.
C13_Witness ==
    /\ open
    /\ rows = render(model, is_collapsed, focus).target
    /\ \E a, b, c \in 1 .. Len(rows) :
            /\ rows[a].indicator = "collapsed"
            /\ rows[b].indicator = "expanded"
            /\ rows[c].indent = 2
    /\ Len(rows) < Len(model.lsp_items)

\* C15 as stated: whenever move_cursor_down or move_cursor_up moves the focus
\* of a view with a registered hook to a different node, the hook is invoked
\* and receives the new index.
C15_AsStated ==
    [][(/\ event' \in {"Down", "Up"}
        /\ on_item_focus
        /\ focus' # focus)
       => calls' = <<Unwrap(focus')>>]_vars

\* C15, amended: when the focus moves from one node to a different node, the
\* registered hook is invoked exactly once; move_cursor_up hands it the new
\* index, move_cursor_down the previous index (the node the focus left). The
\* step from no focus to the first root invokes no hook.
C15_FocusChangeHook ==
    [][(/\ event' \in {"Down", "Up"}
        /\ on_item_focus
        /\ focus' # focus)
       => calls' = IF ~IsSome(focus) THEN <<>>
                   ELSE IF event' = "Up" THEN <<Unwrap(focus')>>
                   ELSE <<Unwrap(focus)>>]_vars

\* Up has just moved the focus and the hook received the node now focused.
C15_Witness ==
    /\ open /\ on_item_focus /\ event = "Up"
    /\ IsSome(focus)
    /\ calls = <<Unwrap(focus)>>

\* C16: tree_symbol_picker opens a view (builds an arena, pushes the view)
\* only for a document with an active language server that supports document
\* symbols and a completed response of the Nested shape; with no language
\* server, an unsupported query, a Flat response or no response it builds no
\* arena and pushes no view.
C16_OpensOnlyForNested ==
    [][/\ (~pending /\ ~open /\ status' # status)
            => \A server \in {"absent", "unsupported"} :
                   TreeSymbolPicker(server)
                        => ~pending' /\ ~open' /\ model' = EmptyModel
       /\ pending
            => \A response \in Responses :
                   Callback(response)
                        => /\ open' = (/\ IsSome(response)
                                       /\ Unwrap(response).kind = "Nested")
                           /\ ~open' => model' = EmptyModel
       /\ (open' /\ ~open)
            => /\ pending /\ status = ""
               /\ \E symbols \in NestedSymbols :
                        model' = LspTreeModel_new(symbols)]_vars

\* The view opened for a nested response with several symbols.
C16_Witness ==
    /\ open /\ ~pending /\ status = "" /\ event = "none"
    /\ Len(model.lsp_items) > 1
    /\ \E symbols \in NestedSymbols : model = LspTreeModel_new(symbols)

\* The 0-based positions of a node's row in a row list; a node's name is its
\* path in the payload, so no two nodes share a name.
RowsOf(m, target, ix) ==
    { r \in 0 .. (Len(target) - 1) : target[r + 1].text = get_item(m, ix).item.name }

\* C20: after every render focused_row is recomputed from scratch: Some(r)
\* exactly when the focused node appears in the rendered rows, r being the
\* 0-based position of its row, and None when focus is None; at most one row
\* is painted as focused, none when the focused row is beyond the viewport.
C20_FocusedRow ==
    [][(/\ open /\ event' = event /\ focus' = focus
        /\ is_collapsed' = is_collapsed /\ on_item_focus' = on_item_focus
        /\ Render)
       => /\ IF IsSome(focus) /\ RowsOf(model, rows', Unwrap(focus)) # {}
             THEN /\ IsSome(focused_row')
                  /\ RowsOf(model, rows', Unwrap(focus)) = {Unwrap(focused_row')}
             ELSE focused_row' = None
          /\ \A height \in 0 .. MaxHeight :
                LET surface == paint(rows', focused_row', height)
                    marked == { k \in 1 .. Len(surface) : surface[k].highlight }
                IN  /\ Cardinality(marked) <= 1
                    /\ marked = { k \in 1 .. Len(surface) :
                                        Some(k - 1) = focused_row' }
                    /\ (IsSome(focused_row') /\ Unwrap(focused_row') >= height)
                            => marked = {}]_vars

\* A rendered view whose focused row is its last row, below the last line of
\* a viewport of MaxHeight lines.
C20_Witness ==
    /\ open /\ IsSome(focus) /\ IsSome(focused_row)
    /\ rows = render(model, is_collapsed, focus).target
    /\ Unwrap(focused_row) = Len(rows) - 1
    /\ Unwrap(focused_row) >= MaxHeight
    /\ paint(rows, focused_row, MaxHeight)
            = [k \in 1 .. MaxHeight |-> [line |-> rows[k], highlight |-> FALSE]]

\* Where the spec sends the focus on a move up from node ix: the entry before
\* ix in its sibling list if there is one, else the parent, else nowhere.
UpTarget(m, ix) ==
    IF get_item(m, ix).child_ix > 0
    THEN Some(SiblingList(m, ix)[get_item(m, ix).child_ix])
    ELSE get_item(m, ix).parent

\* C14: in both engines, move_cursor_up from a focused node moves the focus
\* to prev_sibling(ix) if defined, else to the parent, and invokes the
\* registered callback if and only if the focus after the step is a different
\* node than before it.
C14_UpInBothEngines ==
    [][(event' = "Up" /\ MoveCursorUp)
       => /\ IsSome(focus)
                => /\ focus' = OrElse(UpTarget(model, Unwrap(focus)), focus)
                   /\ on_item_focus => ((calls' # <<>>) <=> (focus' # focus))
          /\ IsSome(tree.focus.row)
                => /\ tree'.focus.row
                        = OrElse(UpTarget(model, Unwrap(tree.focus.row)),
                                 tree.focus.row)
                   /\ tree.focus.callback
                        => ((tree_calls' # <<>>) <=> (tree'.focus.row # tree.focus.row))]_vars

\* C17: the two engines are equivalent on navigation: for every node of a
\* well-formed forest next_sibling, prev_sibling, next_uncle and prev_uncle
\* return the same node in both, and after the same sequence of move-down,
\* move-up and toggle steps from equal states both hold the same focus.
C17_EnginesAgree ==
    /\ \A ix \in Nodes(model) :
            /\ tree_next_sibling(tree, ix) = next_sibling(model, ix)
            /\ tree_prev_sibling(tree, ix) = prev_sibling(model, ix)
            /\ tree_next_uncle(tree, ix) = next_uncle(model, ix, 0).value
            /\ tree_prev_uncle(tree, ix) = prev_uncle(model, ix, 0).value
    /\ is_collapsed = { ix \in Nodes(model) : tree.collapsed[ix + 1] }
    /\ tree.focus.row = focus

\* C18: depth(ix) terminates for every node of a well-formed forest and
\* returns the number of ancestors of ix: its loop takes no more turns than
\* ix has ancestors, and the value it returns is the number of ancestors.
C18_DepthCountsAncestors ==
    /\ depth_call.pc # "idle"
            => depth_call.depth <= Len(AncestorsOf(model, depth_call.ix))
    /\ depth_call.pc = "returned"
            => depth_call.depth = Len(AncestorsOf(model, depth_call.ix))

\* The rows render_col was called for from Widget::render itself (the rows
\* without a parent) while drawing column col, in order.
RootsDrawn(col) ==
    LET of_column(c) == c.column = col /\ ~IsSome(tree.parent[c.row + 1])
        cells == SelectSeq(drawn.cells, of_column)
    IN  [k \in 1 .. Len(cells) |-> cells[k].row]

\* C19: for every COLUMNS >= 1 and every number of roots the renderer walks
\* the roots once per declared column, and every subscript self.roots[index]
\* it evaluates has index < roots.len().
C19_WalkPerColumn ==
    drawn.columns >= 1
        => /\ ~drawn.out_of_bounds
           /\ \A k \in 1 .. Len(drawn.accesses) : drawn.accesses[k] < Len(tree.roots)
           /\ \A col \in 0 .. (drawn.columns - 1) : RootsDrawn(col) = tree.roots

\* C21: from the unfocused state on a non-empty arena the first cursor move,
\* down or up, sets the focus to the first root and invokes no callback.
C21_FirstMove ==
    [][(/\ event' \in {"Down", "Up"}
        /\ ~IsSome(focus)
        /\ Len(model.lsp_items) > 0
        /\ (KeyDown \/ KeyUp))
       => /\ focus' = Some(model.roots[1])
          /\ calls' = <<>>
          /\ ~panicked']_vars

\* An Up on a view with a callback registered has left the focus on the
\* first of several roots, the callback not invoked.
C21_Witness ==
    /\ open /\ on_item_focus /\ event = "Up" /\ ~panicked
    /\ Len(model.roots) > 1
    /\ focus = Some(model.roots[1])
    /\ calls = <<>>

\* C22: on a non-empty arena, after any sequence of Up, Down and Enter events
\* the focus is None or a node of the arena with no proper ancestor in the
\* collapse set (the focused node is a visible row), and a focus that is
\* Some never becomes None again.
C22_FocusStaysVisible ==
    /\ [](IsSome(focus)
            => /\ Unwrap(focus) \in Nodes(model)
               /\ AncestorSet(model, Unwrap(focus)) \cap is_collapsed = {})
    /\ [][IsSome(focus) => IsSome(focus')]_vars

\* A node below the root level is focused next to a collapsed sibling with
\* children, after an Up.
C22_Witness ==
    /\ open /\ event = "Up" /\ IsSome(focus)
    /\ IsSome(get_item(model, Unwrap(focus)).parent)
    /\ \E n \in is_collapsed :
            /\ count_descendants(model, n) > 0
            /\ get_item(model, n).parent = get_item(model, Unwrap(focus)).parent
    /\ is_collapsed # {}

\* The row render gives the node ix under the collapse set of the view, as
\* an Option: None if the node has no row.
RowOfNode(ix) == render(model, is_collapsed, Some(ix)).focused_row

\* C23: for any collapse set, a move_cursor_down that changes the focus moves
\* it to the node on the rendered row right after (the row index grows by
\* exactly 1), and a move_cursor_up that changes the focus moves it to a node
\* on a strictly earlier rendered row.
C23_MovesAlongRows ==
    [][(/\ event' \in {"Down", "Up"}
        /\ IsSome(focus)
        /\ focus' # focus
        /\ (KeyDown \/ KeyUp))
       => LET before == RowOfNode(Unwrap(focus))
              after == RowOfNode(Unwrap(focus'))
          IN  /\ IsSome(before) /\ IsSome(after)
              /\ IF event' = "Down"
                 THEN Unwrap(after) = Unwrap(before) + 1
                 ELSE Unwrap(after) < Unwrap(before)]_vars

\* An Up has moved the focus to a node with children shown below it and a
\* sibling after them: from that sibling the move went back more than a row.
C23_Witness ==
    /\ open /\ on_item_focus /\ event = "Up" /\ IsSome(focus)
    /\ calls = <<Unwrap(focus)>>
    /\ Unwrap(focus) \notin is_collapsed
    /\ child_count(get_item(model, Unwrap(focus))) > 0
    /\ IsSome(next_sibling(model, Unwrap(focus)))
    /\ Unwrap(RowOfNode(Unwrap(next_sibling(model, Unwrap(focus)))))
            > Unwrap(RowOfNode(Unwrap(focus))) + 1

====
